---- MODULE Spec2Model ----
(***************************************************************************)
(* Model of scraper/main.py: the import of a creator / collection / model  *)
(* directory tree into the four tables creators, collections, models and   *)
(* model_files, through a SQLAlchemy Session or the dry-run MockSession.   *)
(*                                                                         *)
(* Strings of the program are sequences of one-character strings, so that  *)
(* str.rsplit and the joining of path segments are computed character by   *)
(* character.  A nullable column, and the result of .first(), is << >> for *)
(* None and << v >> for the value v.  Columns that no operation of the     *)
(* program reads back (created_at, updated_at, notes, caption, slug,       *)
(* license, preview_file_id, presupported_version_id) are left out of the  *)
(* rows.                                                                   *)
(***************************************************************************)
EXTENDS Integers, Sequences, FiniteSets, TLC

VARIABLES
    fs,              \* the directory tree on disk: a set of nodes
    library_id,      \* the library_id argument of main
    session,         \* the session handle and the database behind it
    pc,              \* position of the process
    error,           \* the uncaught exception that ended the process, or None
    creatorsLeft,    \* entries root_folder.iterdir() has still to yield
    creator_path,
    collectionsLeft, \* entries creator_path.iterdir() has still to yield
    collection_path,
    modelsLeft,      \* entries collection_path.iterdir() has still to yield
    model_path,
    infos,           \* result of get_infos(model_path)
    creator_id,
    collection_id,
    model_id,
    stack,           \* the active calls of insert_model_files, innermost last
    scans,           \* completed calls of insert_folders
    calls,           \* direct calls of the two resolvers made so far
    lastCall         \* argument and result of the last direct resolver call

vars == <<fs, library_id, session, pc, error, creatorsLeft, creator_path,
          collectionsLeft, collection_path, modelsLeft, model_path, infos,
          creator_id, collection_id, model_id, stack, scans, calls, lastCall>>

scanVars == <<creatorsLeft, creator_path, collectionsLeft, collection_path,
              modelsLeft, model_path, infos, creator_id, collection_id,
              model_id, stack>>

None == << >>

Some(v) == << v >>

(***************************************************************************)
(* Bounds of the model.                                                    *)
(***************************************************************************)
MaxScans == 2

MaxCalls == 2

MaxCallScans == 1

(***************************************************************************)
(* Names used in the directory trees.                                      *)
(***************************************************************************)
Separator == "-"

Slash == "/"

CreatorA == <<"C", "r", "e", "a", "t", "o", "r", "A">>

CreatorB == <<"C", "r", "e", "a", "t", "o", "r", "B">>

CollectionB == <<"C", "o", "l", "l", "e", "c", "t", "i", "o", "n", "B">>

ModelC_1234 == <<"M", "o", "d", "e", "l", "C", "-", "1", "2", "3", "4">>

My_Model_5678 == <<"M", "y", "-", "M", "o", "d", "e", "l", "-", "5", "6", "7", "8">>

NoSep == <<"N", "o", "S", "e", "p">>

MeshObj == <<"m", "e", "s", "h", ".", "o", "b", "j">>

CopyObj == <<"c", "o", "p", "y", ".", "o", "b", "j">>

PartStl == <<"p", "a", "r", "t", ".", "s", "t", "l">>

Sub == <<"s", "u", "b">>

Deep == <<"d", "e", "e", "p">>

Pipe == <<"p", "i", "p", "e">>

Link == <<"l", "i", "n", "k">>

StrayTxt == <<"s", "t", "r", "a", "y", ".", "t", "x", "t">>

NoteTxt == <<"n", "o", "t", "e", ".", "t", "x", "t">>

Read_Me == <<"r", "e", "a", "d", "-", "m", "e">>

RootFolder == << <<"/">>, <<"l", "i", "b">> >>

Bytes1 == <<115, 111, 108, 105, 100, 32, 97, 10, 101, 110>>

Bytes2 == <<0, 1, 2>>

LibraryIds == {7}

(***************************************************************************)
(* The file system.  A node is a path (the root folder's parts followed by *)
(* the parts below it), a kind and, for a regular file, its bytes.  Kind   *)
(* "fifo" is a named pipe and kind "dangling" a symbolic link whose target *)
(* does not exist: neither is a regular file or a directory, and listing   *)
(* them fails in different ways.                                           *)
(***************************************************************************)
Dir(rel) == [path |-> RootFolder \o rel, kind |-> "dir", bytes |-> << >>]

File(rel, b) == [path |-> RootFolder \o rel, kind |-> "file", bytes |-> b]

Fifo(rel) == [path |-> RootFolder \o rel, kind |-> "fifo", bytes |-> << >>]

Dangling(rel) == [path |-> RootFolder \o rel, kind |-> "dangling", bytes |-> << >>]

DirA == Dir(<<CreatorA>>)

DirAB == Dir(<<CreatorA, CollectionB>>)

DirB == Dir(<<CreatorB>>)

DirBB == Dir(<<CreatorB, CollectionB>>)

DirABC == Dir(<<CreatorA, CollectionB, ModelC_1234>>)

UnitModelC ==
    {DirA, DirAB, DirABC,
     File(<<CreatorA, CollectionB, ModelC_1234, MeshObj>>, Bytes1)}

UnitNested ==
    {DirA, DirAB, DirABC,
     Dir(<<CreatorA, CollectionB, ModelC_1234, Sub>>),
     File(<<CreatorA, CollectionB, ModelC_1234, Sub, MeshObj>>, Bytes2),
     Dir(<<CreatorA, CollectionB, ModelC_1234, Sub, Deep>>),
     File(<<CreatorA, CollectionB, ModelC_1234, Sub, Deep, CopyObj>>, Bytes1)}

UnitOtherCreator ==
    {DirB, DirBB,
     Dir(<<CreatorB, CollectionB, My_Model_5678>>),
     File(<<CreatorB, CollectionB, My_Model_5678, PartStl>>, Bytes1),
     Fifo(<<CreatorB, CollectionB, My_Model_5678, Pipe>>)}

UnitNoSep ==
    {DirA, DirAB,
     Dir(<<CreatorA, CollectionB, NoSep>>),
     File(<<CreatorA, CollectionB, NoSep, PartStl>>, Bytes2)}

UnitStrayCreator == {File(<<StrayTxt>>, Bytes2)}

UnitStrayCollection == {DirA, File(<<CreatorA, NoteTxt>>, Bytes2)}

UnitStrayModel ==
    {DirA, DirAB, File(<<CreatorA, CollectionB, Read_Me>>, Bytes2),
     Dangling(<<CreatorA, CollectionB, Link>>)}

UnitDanglingCreator == {Dangling(<<Link>>)}

UnitDanglingCollection == {DirA, Dangling(<<CreatorA, Link>>)}

Units == {UnitModelC, UnitNested, UnitOtherCreator, UnitNoSep,
          UnitStrayCreator, UnitStrayCollection, UnitStrayModel,
          UnitDanglingCreator, UnitDanglingCollection}

Trees == {UNION chosen : chosen \in SUBSET Units}

\* path.name
Name(path) == path[Len(path)]

\* path.is_dir()
is_dir(tree, path) == \E n \in tree : n.path = path /\ n.kind = "dir"

\* path.is_file()
is_file(tree, path) == \E n \in tree : n.path = path /\ n.kind = "file"

\* path.read_bytes()
read_bytes(tree, path) == (CHOOSE n \in tree : n.path = path).bytes

\* path.stat().st_size
st_size(tree, path) == Len(read_bytes(tree, path))

\* the paths path.iterdir() yields, in an order the platform chooses
iterdir(tree, path) ==
    {n.path : n \in {m \in tree : /\ Len(m.path) = Len(path) + 1
                                  /\ SubSeq(m.path, 1, Len(path)) = path}}

\* the exception path.iterdir() raises, None when path is a directory: a
\* regular file and a FIFO are not directories, a dangling link (like a
\* missing path) leads to no file at all
iterdir_raises(tree, path) ==
    IF is_dir(tree, path) THEN None
    ELSE IF \E n \in tree : n.path = path /\ n.kind \in {"file", "fifo"}
         THEN Some("NotADirectoryError")
    ELSE Some("FileNotFoundError")

\* hashlib.sha512(bytes).hexdigest(): a function of the bytes alone that
\* tells different contents apart; the 128 hexadecimal digits themselves
\* are not computed
calculate_digest(tree, file) == <<"sha512", read_bytes(tree, file)>>

\* path.relative_to(root_folder)
sanitize_path(root_folder, path) ==
    SubSeq(path, Len(root_folder) + 1, Len(path))

\* str() of a relative path: its parts joined by "/"
RECURSIVE PathStr(_)
PathStr(parts) ==
    IF parts = << >> THEN <<".">>
    ELSE IF Len(parts) = 1 THEN parts[1]
    ELSE parts[1] \o <<Slash>> \o PathStr(Tail(parts))

(***************************************************************************)
(* get_infos.                                                              *)
(***************************************************************************)
\* the largest index of sep in s, 0 when s has none
RECURSIVE LastIndexOf(_, _)
LastIndexOf(s, sep) ==
    IF s = << >> THEN 0
    ELSE IF s[Len(s)] = sep THEN Len(s)
    ELSE LastIndexOf(SubSeq(s, 1, Len(s) - 1), sep)

\* the smallest index of sep in s, 0 when s has none
RECURSIVE FirstIndexOf(_, _)
FirstIndexOf(s, sep) ==
    IF s = << >> THEN 0
    ELSE IF s[1] = sep THEN 1
    ELSE LET i == FirstIndexOf(Tail(s), sep) IN IF i = 0 THEN 0 ELSE i + 1

\* variant of rsplit1: s.split(sep, 1), which cuts at the first separator
split1(s, sep) ==
    LET i == FirstIndexOf(s, sep)
    IN  IF i = 0 THEN <<s>>
        ELSE <<SubSeq(s, 1, i - 1), SubSeq(s, i + 1, Len(s))>>

\* s.rsplit(sep, 1): the list of the pieces
rsplit1(s, sep) ==
    LET i == LastIndexOf(s, sep)
    IN  IF i = 0 THEN <<s>>
        ELSE <<SubSeq(s, 1, i - 1), SubSeq(s, i + 1, Len(s))>>

\* path.parts[-3:]
Last3(parts) ==
    IF Len(parts) <= 3 THEN parts ELSE SubSeq(parts, Len(parts) - 2, Len(parts))

\* variant of get_infos: s.rpartition(sep), which does not fail on a name
\* without separator
get_infos_Lenient(path) ==
    LET tail == Last3(path)
        i    == IF Len(tail) = 3 THEN LastIndexOf(tail[3], Separator) ELSE 0
    IN  IF Len(tail) = 3
        THEN [raised |-> FALSE, creator |-> tail[1], collection |-> tail[2],
              model_name |-> SubSeq(tail[3], 1, i - 1),
              uuid |-> SubSeq(tail[3], i + 1, Len(tail[3]))]
        ELSE [raised |-> TRUE, creator |-> << >>, collection |-> << >>,
              model_name |-> << >>, uuid |-> << >>]

\* get_infos(path); raised is TRUE when one of the two unpackings raises
\* ValueError
get_infos(path) ==
    LET tail   == Last3(path)
        pieces == IF Len(tail) = 3 THEN rsplit1(tail[3], Separator) ELSE << >>
    IN  IF Len(tail) = 3 /\ Len(pieces) = 2
        THEN [raised |-> FALSE, creator |-> tail[1], collection |-> tail[2],
              model_name |-> pieces[1], uuid |-> pieces[2]]
        ELSE [raised |-> TRUE, creator |-> << >>, collection |-> << >>,
              model_name |-> << >>, uuid |-> << >>]

(***************************************************************************)
(* The session.  kind is "MockSession" (dry run) or "Session".  A Session  *)
(* is bound to a database that holds the four tables; indexes tells        *)
(* whether that database carries the unique indexes and foreign keys the   *)
(* docstrings of Creator, Collection and ModelFile list (the tables as     *)
(* they exist in the catalogue) or only the columns the classes declare.   *)
(* pending holds the rows add has staged and commit has not yet written;   *)
(* log is what                                                             *)
(* MockSession writes to the logger.  raised is the exception a commit     *)
(* raised.                                                                 *)
(***************************************************************************)
Tables == {"creators", "collections", "models", "model_files"}

NewSession(kind, indexes) ==
    [kind |-> kind, indexes |-> indexes,
     creators |-> << >>, collections |-> << >>, models |-> << >>,
     model_files |-> << >>, pending |-> << >>, log |-> << >>,
     raised |-> None]

Range(seq) == {seq[i] : i \in DOMAIN seq}

Ids(rows) == {r.id : r \in Range(rows)}

\* the unique indexes of the docstrings: creators(name), collections(name),
\* model_files(filename, model_id)
ViolatesUnique(s, table, row) ==
    \/ /\ table = "creators"
       /\ \E r \in Range(s.creators) : r.name = row.name
    \/ /\ table = "collections"
       /\ \E r \in Range(s.collections) : r.name = row.name
    \/ /\ table = "model_files"
       /\ \E r \in Range(s.model_files) :
             r.filename = row.filename /\ r.model_id = row.model_id

\* the foreign keys of the docstrings: collections.collection_id and
\* models.collection_id to collections(id), models.creator_id to
\* creators(id), model_files.model_id to models(id); a NULL refers to
\* nothing, and a collection may refer to itself
ViolatesForeignKey(s, table, row) ==
    \/ /\ table = "collections"
       /\ row.collection_id # None
       /\ row.collection_id \notin Ids(s.collections) \cup {row.id}
    \/ /\ table = "models"
       /\ \/ row.creator_id # None /\ row.creator_id \notin Ids(s.creators)
          \/ row.collection_id # None /\ row.collection_id \notin Ids(s.collections)
    \/ /\ table = "model_files"
       /\ row.model_id # None
       /\ row.model_id \notin Ids(s.models)

\* INSERT of one staged row; the primary key comes from the table's sequence
InsertRow(s, table, row) ==
    LET stored == [row EXCEPT !.id = Some(Len(s[table]) + 1)]
    IN  IF s.indexes /\ (ViolatesUnique(s, table, stored)
                         \/ ViolatesForeignKey(s, table, stored))
        THEN [s EXCEPT !.raised = Some("IntegrityError")]
        ELSE [s EXCEPT ![table] = Append(@, stored)]

RECURSIVE Flush(_)
Flush(s) ==
    IF s.pending = << >> \/ s.raised # None THEN [s EXCEPT !.pending = << >>]
    ELSE Flush(InsertRow([s EXCEPT !.pending = Tail(@)],
                         s.pending[1].table, s.pending[1].row))

\* session.add(row)
Add(s, table, row) ==
    IF s.kind = "MockSession"
    THEN [s EXCEPT !.log = Append(@, [op |-> "add", table |-> table, row |-> row])]
    ELSE [s EXCEPT !.pending = Append(@, [table |-> table, row |-> row])]

\* session.commit()
Commit(s) ==
    IF s.kind = "MockSession"
    THEN [s EXCEPT !.log = Append(@, [op |-> "commit", table |-> "", row |-> << >>])]
    ELSE Flush(s)

\* variant of First: a MockSession that finds what was added to it
First_MockRemembers(s, table, criteria) ==
    LET rows == IF s.kind = "MockSession"
                THEN [i \in DOMAIN s.log |-> s.log[i].row]
                ELSE s[table]
        hits == {i \in DOMAIN rows :
                    /\ s.kind = "MockSession" =>
                           (s.log[i].op = "add" /\ s.log[i].table = table)
                    /\ \A k \in DOMAIN criteria : rows[i][k] = criteria[k]}
    IN  IF hits = {} THEN None
        ELSE Some(rows[CHOOSE i \in hits : \A j \in hits : i <= j])

\* session.query(table).filter_by(**criteria).first()
First(s, table, criteria) ==
    IF s.kind = "MockSession" THEN None
    ELSE LET hits == {i \in DOMAIN s[table] :
                         \A k \in DOMAIN criteria : s[table][i][k] = criteria[k]}
         IN  IF hits = {} THEN None
             ELSE Some(s[table][CHOOSE i \in hits : \A j \in hits : i <= j])

\* variant of Persisted: the primary key is read from the object as built
Persisted_BeforeFlush(s, table, row) == row

\* the object handed to add, as the program reads it after the commit: the
\* stored row with its primary key under a Session, the object as built
\* (id None) under MockSession
Persisted(s, table, row) ==
    IF s.kind = "MockSession" \/ s.raised # None \/ s[table] = << >> THEN row
    ELSE s[table][Len(s[table])]

Creator(name) == [id |-> None, name |-> name]

Collection(name, parent) == [id |-> None, name |-> name, collection_id |-> parent]

Model(name, path, lib, creator, collection) ==
    [id |-> None, name |-> name, path |-> path, library_id |-> lib,
     creator_id |-> creator, collection_id |-> collection]

ModelFile(filename, model, digest, size) ==
    [id |-> None, filename |-> filename, model_id |-> model,
     presupported |-> FALSE, y_up |-> FALSE, digest |-> digest, size |-> size]

(***************************************************************************)
(* The two resolvers.  Each returns the session after the call and the     *)
(* row it returns; created tells which branch it took.                     *)
(***************************************************************************)
\* variant of get_or_create_creator: no lookup before the insert
get_or_create_creator_NoLookup(s, name) ==
    LET s2 == Commit(Add(s, "creators", Creator(name)))
    IN  [session |-> s2,
         row |-> Persisted(s2, "creators", Creator(name)),
         created |-> TRUE]

get_or_create_creator(s, name) ==
    LET creator == First(s, "creators", [name |-> name])
    IN  IF creator # None
        THEN [session |-> s, row |-> creator[1], created |-> FALSE]
        ELSE LET s2 == Commit(Add(s, "creators", Creator(name)))
             IN  [session |-> s2,
                  row |-> Persisted(s2, "creators", Creator(name)),
                  created |-> TRUE]

\* variant of get_or_create_collection: the parent is compared with "=",
\* which no row satisfies when the parent is NULL
get_or_create_collection_EqNull(s, name, parent) ==
    LET collection ==
            IF parent = None THEN None
            ELSE First(s, "collections", [name |-> name, collection_id |-> parent])
    IN  IF collection # None
        THEN [session |-> s, row |-> collection[1], created |-> FALSE]
        ELSE LET s2 == Commit(Add(s, "collections", Collection(name, parent)))
             IN  [session |-> s2,
                  row |-> Persisted(s2, "collections", Collection(name, parent)),
                  created |-> TRUE]

get_or_create_collection(s, name, parent) ==
    LET collection ==
            First(s, "collections", [name |-> name, collection_id |-> parent])
    IN  IF collection # None
        THEN [session |-> s, row |-> collection[1], created |-> FALSE]
        ELSE LET s2 == Commit(Add(s, "collections", Collection(name, parent)))
             IN  [session |-> s2,
                  row |-> Persisted(s2, "collections", Collection(name, parent)),
                  created |-> TRUE]

(***************************************************************************)
(* The process.                                                            *)
(***************************************************************************)
NoInfos ==
    [raised |-> FALSE, creator |-> << >>, collection |-> << >>,
     model_name |-> << >>, uuid |-> << >>]

NoCall == [fn |-> "", name |-> << >>, parent |-> None, row |-> None, created |-> FALSE]

Sessions ==
    {NewSession("MockSession", FALSE), NewSession("Session", FALSE),
     NewSession("Session", TRUE)}

CreatorNames == {CreatorA, CreatorB}

CollectionNames == {CollectionB}

ParentIds == {None, Some(1)}

ScanLocalsCleared ==
    /\ creatorsLeft' = {}
    /\ creator_path' = << >>
    /\ collectionsLeft' = {}
    /\ collection_path' = << >>
    /\ modelsLeft' = {}
    /\ model_path' = << >>
    /\ infos' = NoInfos
    /\ creator_id' = None
    /\ collection_id' = None
    /\ model_id' = None
    /\ stack' = << >>

Init ==
    /\ fs \in Trees
    /\ library_id \in LibraryIds
    /\ session \in Sessions
    /\ pc = "idle"
    /\ error = None
    /\ creatorsLeft = {}
    /\ creator_path = << >>
    /\ collectionsLeft = {}
    /\ collection_path = << >>
    /\ modelsLeft = {}
    /\ model_path = << >>
    /\ infos = NoInfos
    /\ creator_id = None
    /\ collection_id = None
    /\ model_id = None
    /\ stack = << >>
    /\ scans = 0
    /\ calls = 0
    /\ lastCall = NoCall

\* an exception nothing catches: the process ends where it is
Raise(e) ==
    /\ pc' = "aborted"
    /\ error' = Some(e)

\* a direct call get_or_create_creator(session, name)
CallGetOrCreateCreator ==
    /\ pc = "idle"
    /\ calls < MaxCalls
    /\ \E name \in CreatorNames :
          LET r == get_or_create_creator(session, name)
          IN  /\ session' = r.session
              /\ lastCall' = [fn |-> "get_or_create_creator", name |-> name,
                              parent |-> None, row |-> Some(r.row),
                              created |-> r.created]
              /\ IF r.session.raised # None
                 THEN Raise(r.session.raised[1])
                 ELSE UNCHANGED <<pc, error>>
    /\ calls' = calls + 1
    /\ UNCHANGED <<fs, library_id, scans, scanVars>>

\* a direct call get_or_create_collection(session, name, collection_id)
CallGetOrCreateCollection ==
    /\ pc = "idle"
    /\ calls < MaxCalls
    /\ \E name \in CollectionNames, parent \in ParentIds :
          LET r == get_or_create_collection(session, name, parent)
          IN  /\ session' = r.session
              /\ lastCall' = [fn |-> "get_or_create_collection", name |-> name,
                              parent |-> parent, row |-> Some(r.row),
                              created |-> r.created]
              /\ IF r.session.raised # None
                 THEN Raise(r.session.raised[1])
                 ELSE UNCHANGED <<pc, error>>
    /\ calls' = calls + 1
    /\ UNCHANGED <<fs, library_id, scans, scanVars>>

\* insert_folders is called: root_folder.iterdir()
BeginScan ==
    /\ pc = "idle"
    /\ pc' = "creators"
    /\ creatorsLeft' = iterdir(fs, RootFolder)
    /\ UNCHANGED <<fs, library_id, session, error, creator_path,
                   collectionsLeft, collection_path, modelsLeft, model_path,
                   infos, creator_id, collection_id, model_id, stack, scans,
                   calls, lastCall>>

\* a run of main
StartScan ==
    /\ scans < MaxScans
    /\ BeginScan

\* a run of insert_folders between direct calls of the resolvers
StartScanAmongCalls ==
    /\ scans < MaxCallScans
    /\ BeginScan

\* the outer loop takes its next entry and lists it
NextCreator ==
    /\ pc = "creators"
    /\ \E p \in creatorsLeft :
          /\ creatorsLeft' = creatorsLeft \ {p}
          /\ creator_path' = p
          /\ IF iterdir_raises(fs, p) = None
             THEN /\ collectionsLeft' = iterdir(fs, p)
                  /\ pc' = "collections"
                  /\ UNCHANGED error
             ELSE /\ Raise(iterdir_raises(fs, p)[1])
                  /\ UNCHANGED collectionsLeft
    /\ UNCHANGED <<fs, library_id, session, collection_path, modelsLeft,
                   model_path, infos, creator_id, collection_id, model_id,
                   stack, scans, calls, lastCall>>

\* the outer loop is exhausted: insert_folders returns
FinishScan ==
    /\ pc = "creators"
    /\ creatorsLeft = {}
    /\ pc' = "idle"
    /\ scans' = scans + 1
    /\ ScanLocalsCleared
    /\ UNCHANGED <<fs, library_id, session, error, calls, lastCall>>

\* the middle loop takes its next entry and lists it
NextCollection ==
    /\ pc = "collections"
    /\ \E p \in collectionsLeft :
          /\ collectionsLeft' = collectionsLeft \ {p}
          /\ collection_path' = p
          /\ IF iterdir_raises(fs, p) = None
             THEN /\ modelsLeft' = iterdir(fs, p)
                  /\ pc' = "models"
                  /\ UNCHANGED error
             ELSE /\ Raise(iterdir_raises(fs, p)[1])
                  /\ UNCHANGED modelsLeft
    /\ UNCHANGED <<fs, library_id, session, creatorsLeft, creator_path,
                   model_path, infos, creator_id, collection_id, model_id,
                   stack, scans, calls, lastCall>>

\* the middle loop is exhausted
EndCreator ==
    /\ pc = "collections"
    /\ collectionsLeft = {}
    /\ pc' = "creators"
    /\ UNCHANGED <<fs, library_id, session, error, scanVars, scans, calls,
                   lastCall>>

\* variant of SkipNonDirectory: the is_dir guard is missing, the entry is
\* handled as a model directory
SkipNonDirectory_NoGuard ==
    /\ pc = "models"
    /\ \E p \in modelsLeft :
          /\ ~is_dir(fs, p)
          /\ modelsLeft' = modelsLeft \ {p}
          /\ model_path' = p
          /\ infos' = get_infos(p)
          /\ IF get_infos(p).raised
             THEN Raise("ValueError")
             ELSE pc' = "resolve_creator" /\ UNCHANGED error
    /\ UNCHANGED <<fs, library_id, session, creatorsLeft, creator_path,
                   collectionsLeft, collection_path, creator_id,
                   collection_id, model_id, stack, scans, calls, lastCall>>

\* the inner loop takes an entry that is not a directory: continue
SkipNonDirectory ==
    /\ pc = "models"
    /\ \E p \in modelsLeft :
          /\ ~is_dir(fs, p)
          /\ modelsLeft' = modelsLeft \ {p}
          /\ model_path' = p
    /\ UNCHANGED <<fs, library_id, session, pc, error, creatorsLeft,
                   creator_path, collectionsLeft, collection_path, infos,
                   creator_id, collection_id, model_id, stack, scans, calls,
                   lastCall>>

\* the inner loop takes a directory and parses its path
NextModel ==
    /\ pc = "models"
    /\ \E p \in modelsLeft :
          /\ is_dir(fs, p)
          /\ modelsLeft' = modelsLeft \ {p}
          /\ model_path' = p
          /\ infos' = get_infos(p)
          /\ IF get_infos(p).raised
             THEN Raise("ValueError")
             ELSE pc' = "resolve_creator" /\ UNCHANGED error
    /\ UNCHANGED <<fs, library_id, session, creatorsLeft, creator_path,
                   collectionsLeft, collection_path, creator_id,
                   collection_id, model_id, stack, scans, calls, lastCall>>

\* the inner loop is exhausted
EndCollection ==
    /\ pc = "models"
    /\ modelsLeft = {}
    /\ pc' = "collections"
    /\ UNCHANGED <<fs, library_id, session, error, scanVars, scans, calls,
                   lastCall>>

\* creator_id = get_or_create_creator(session, creator).id
ResolveCreator ==
    /\ pc = "resolve_creator"
    /\ LET r == get_or_create_creator(session, infos.creator)
       IN  /\ session' = r.session
           /\ IF r.session.raised # None
              THEN Raise(r.session.raised[1]) /\ UNCHANGED creator_id
              ELSE /\ creator_id' = r.row.id
                   /\ pc' = "resolve_collection"
                   /\ UNCHANGED error
    /\ UNCHANGED <<fs, library_id, creatorsLeft, creator_path,
                   collectionsLeft, collection_path, modelsLeft, model_path,
                   infos, collection_id, model_id, stack, scans, calls,
                   lastCall>>

\* variant of ResolveCollection: the collection is looked up within its
\* creator, whose id is passed as the parent
ResolveCollection_ScopedByCreator ==
    /\ pc = "resolve_collection"
    /\ LET r == get_or_create_collection(session, infos.collection, creator_id)
       IN  /\ session' = r.session
           /\ IF r.session.raised # None
              THEN Raise(r.session.raised[1]) /\ UNCHANGED collection_id
              ELSE /\ collection_id' = r.row.id
                   /\ pc' = "insert_model"
                   /\ UNCHANGED error
    /\ UNCHANGED <<fs, library_id, creatorsLeft, creator_path,
                   collectionsLeft, collection_path, modelsLeft, model_path,
                   infos, creator_id, model_id, stack, scans, calls, lastCall>>

\* collection_id = get_or_create_collection(session, collection, None).id
ResolveCollection ==
    /\ pc = "resolve_collection"
    /\ LET r == get_or_create_collection(session, infos.collection, None)
       IN  /\ session' = r.session
           /\ IF r.session.raised # None
              THEN Raise(r.session.raised[1]) /\ UNCHANGED collection_id
              ELSE /\ collection_id' = r.row.id
                   /\ pc' = "insert_model"
                   /\ UNCHANGED error
    /\ UNCHANGED <<fs, library_id, creatorsLeft, creator_path,
                   collectionsLeft, collection_path, modelsLeft, model_path,
                   infos, creator_id, model_id, stack, scans, calls, lastCall>>

\* the Model object insert_folders builds for model_path
NewModel(path, lib, creator, collection) ==
    Model(Name(path), PathStr(sanitize_path(RootFolder, path)), lib,
          creator, collection)

\* the Model row is added and committed, insert_model_files is called
InsertModel ==
    /\ pc = "insert_model"
    /\ LET model == NewModel(model_path, library_id, creator_id, collection_id)
           s2    == Commit(Add(session, "models", model))
       IN  /\ session' = s2
           /\ IF s2.raised # None
              THEN Raise(s2.raised[1]) /\ UNCHANGED <<model_id, stack>>
              ELSE /\ model_id' = Persisted(s2, "models", model).id
                   /\ stack' = <<[dir |-> model_path,
                                  left |-> iterdir(fs, model_path)]>>
                   /\ pc' = "files"
                   /\ UNCHANGED error
    /\ UNCHANGED <<fs, library_id, creatorsLeft, creator_path,
                   collectionsLeft, collection_path, modelsLeft, model_path,
                   infos, creator_id, collection_id, scans, calls, lastCall>>

Top == stack[Len(stack)]

Popped == SubSeq(stack, 1, Len(stack) - 1)

\* the ModelFile object insert_model_files builds for path
NewModelFile(tree, path, model) ==
    ModelFile(Name(path), model, calculate_digest(tree, path),
              st_size(tree, path))

\* insert_model_files takes a regular file: one ModelFile row, committed
InsertFile ==
    /\ pc = "files"
    /\ \E p \in Top.left :
          /\ is_file(fs, p)
          /\ LET s2 == Commit(Add(session, "model_files",
                                  NewModelFile(fs, p, model_id)))
             IN  /\ session' = s2
                 /\ stack' = [stack EXCEPT ![Len(stack)].left = @ \ {p}]
                 /\ IF s2.raised # None
                    THEN Raise(s2.raised[1])
                    ELSE UNCHANGED <<pc, error>>
    /\ UNCHANGED <<fs, library_id, creatorsLeft, creator_path,
                   collectionsLeft, collection_path, modelsLeft, model_path,
                   infos, creator_id, collection_id, model_id, scans, calls,
                   lastCall>>

\* variant of EnterDirectory: no recursive call, the directory is passed over
EnterDirectory_NoRecursion ==
    /\ pc = "files"
    /\ \E p \in Top.left :
          /\ ~is_file(fs, p)
          /\ is_dir(fs, p)
          /\ stack' = [stack EXCEPT ![Len(stack)].left = @ \ {p}]
    /\ UNCHANGED <<fs, library_id, session, pc, error, creatorsLeft,
                   creator_path, collectionsLeft, collection_path,
                   modelsLeft, model_path, infos, creator_id, collection_id,
                   model_id, scans, calls, lastCall>>

\* insert_model_files takes a directory: the recursive call
EnterDirectory ==
    /\ pc = "files"
    /\ \E p \in Top.left :
          /\ ~is_file(fs, p)
          /\ is_dir(fs, p)
          /\ stack' = Append([stack EXCEPT ![Len(stack)].left = @ \ {p}],
                             [dir |-> p, left |-> iterdir(fs, p)])
    /\ UNCHANGED <<fs, library_id, session, pc, error, creatorsLeft,
                   creator_path, collectionsLeft, collection_path,
                   modelsLeft, model_path, infos, creator_id, collection_id,
                   model_id, scans, calls, lastCall>>

\* insert_model_files takes an entry that is neither: nothing is done
SkipOther ==
    /\ pc = "files"
    /\ \E p \in Top.left :
          /\ ~is_file(fs, p)
          /\ ~is_dir(fs, p)
          /\ stack' = [stack EXCEPT ![Len(stack)].left = @ \ {p}]
    /\ UNCHANGED <<fs, library_id, session, pc, error, creatorsLeft,
                   creator_path, collectionsLeft, collection_path,
                   modelsLeft, model_path, infos, creator_id, collection_id,
                   model_id, scans, calls, lastCall>>

\* a call of insert_model_files has listed everything: it returns
ReturnFromDirectory ==
    /\ pc = "files"
    /\ Top.left = {}
    /\ stack' = Popped
    /\ pc' = IF Popped = << >> THEN "models" ELSE "files"
    /\ UNCHANGED <<fs, library_id, session, error, creatorsLeft,
                   creator_path, collectionsLeft, collection_path,
                   modelsLeft, model_path, infos, creator_id, collection_id,
                   model_id, scans, calls, lastCall>>

\* the runs of main: scans of the tree, one after the other
Next ==
    \/ StartScan
    \/ NextCreator
    \/ FinishScan
    \/ NextCollection
    \/ EndCreator
    \/ SkipNonDirectory
    \/ NextModel
    \/ EndCollection
    \/ ResolveCreator
    \/ ResolveCollection
    \/ InsertModel
    \/ InsertFile
    \/ EnterDirectory
    \/ SkipOther
    \/ ReturnFromDirectory

Spec == Init /\ [][Next]_vars

\* the trees the scans run over when the resolvers are also called directly
CallTrees ==
    {UnitModelC,
     UnitModelC \cup UnitNested \cup UnitStrayModel \cup UnitOtherCreator}

InitCalls ==
    /\ Init
    /\ fs \in CallTrees

\* scans, and direct calls of the two resolvers between them
NextCalls ==
    \/ CallGetOrCreateCreator
    \/ CallGetOrCreateCollection
    \/ StartScanAmongCalls
    \/ NextCreator
    \/ FinishScan
    \/ NextCollection
    \/ EndCreator
    \/ SkipNonDirectory
    \/ NextModel
    \/ EndCollection
    \/ ResolveCreator
    \/ ResolveCollection
    \/ InsertModel
    \/ InsertFile
    \/ EnterDirectory
    \/ SkipOther
    \/ ReturnFromDirectory

SpecCalls == InitCalls /\ [][NextCalls]_vars

(***************************************************************************)
(* Vocabulary of the properties.                                           *)
(***************************************************************************)
RealStore == session.kind = "Session"

DryRun == session.kind = "MockSession"

\* the directories the inner loop of insert_folders treats as models
ModelDirs ==
    {n.path : n \in {m \in fs : /\ m.kind = "dir"
                                /\ Len(m.path) = Len(RootFolder) + 3}}

\* the regular files at any depth beneath directory d
FilesBeneath(d) ==
    {n.path : n \in {m \in fs : /\ m.kind = "file"
                                /\ Len(m.path) > Len(d)
                                /\ SubSeq(m.path, 1, Len(d)) = d}}

\* the path column of the Model rows of model directory d
StoredPath(d) == PathStr(SubSeq(d, Len(RootFolder) + 1, Len(d)))

HasSeparator(name) == \E i \in DOMAIN name : name[i] = Separator

RowsWhere(rows, P(_)) == {i \in DOMAIN rows : P(rows[i])}

\* the Model rows of model directory d
ModelRowsOf(d) == {i \in DOMAIN session.models : session.models[i].path = StoredPath(d)}

\* the ModelFile rows that describe file f of model directory d
FileRowsOf(d, f) ==
    {i \in DOMAIN session.model_files :
        /\ session.model_files[i].filename = f[Len(f)]
        /\ session.model_files[i].size = Len(read_bytes(fs, f))
        /\ session.model_files[i].digest = <<"sha512", read_bytes(fs, f)>>
        /\ \E j \in ModelRowsOf(d) :
              session.models[j].id = session.model_files[i].model_id}

\* the files of model directory d that share name and bytes with f
Twins(d, f) ==
    {g \in FilesBeneath(d) :
        g[Len(g)] = f[Len(f)] /\ read_bytes(fs, g) = read_bytes(fs, f)}

AllFiles == UNION {FilesBeneath(d) : d \in ModelDirs}

LogAdds(table) ==
    {i \in DOMAIN session.log :
        session.log[i].op = "add" /\ session.log[i].table = table}

(***************************************************************************)
(* C1: with a real store, whatever resolver calls and scans have run, no   *)
(* two Creator rows share a name and no two Collection rows share (name,   *)
(* parent collection id); and a get_or_create_creator call with a name     *)
(* that already has a row returns that row and adds no row.                *)
(***************************************************************************)
C1_UniqueRows ==
    RealStore =>
        /\ \A i, j \in DOMAIN session.creators :
              session.creators[i].name = session.creators[j].name => i = j
        /\ \A i, j \in DOMAIN session.collections :
              (/\ session.collections[i].name = session.collections[j].name
               /\ session.collections[i].collection_id =
                      session.collections[j].collection_id) => i = j

C1_SecondCallStep ==
    (/\ RealStore
     /\ calls' = calls + 1
     /\ lastCall'.fn = "get_or_create_creator"
     /\ \E r \in Range(session.creators) : r.name = lastCall'.name)
    => /\ session' = session
       /\ lastCall'.row # None
       /\ lastCall'.row[1] \in Range(session.creators)
       /\ lastCall'.row[1].name = lastCall'.name

\* C1: under a real store no Creator name and no Collection (name, parent)
\* is stored twice, and a creator call for a stored name returns the stored
\* row and adds none
C1_NoDuplicateCreatorOrCollection ==
    []C1_UniqueRows /\ [][C1_SecondCallStep]_vars

C1_Witness ==
    /\ RealStore
    /\ scans = 0
    /\ calls = 2
    /\ lastCall.fn = "get_or_create_creator"
    /\ ~lastCall.created
    /\ Len(session.creators) = 1
    /\ lastCall.row = Some(session.creators[1])

(***************************************************************************)
(* C2: with a real store, once n scans of the tree have completed there    *)
(* are n Model rows for every model directory and n ModelFile rows for     *)
(* every regular file beneath it, while the Creator and Collection rows    *)
(* are those of the first scan: one per creator name and one per           *)
(* collection name that has a model directory.                             *)
(***************************************************************************)
C2_RescanDuplicatesModelsOnly ==
    (RealStore /\ pc = "idle" /\ scans >= 1) =>
        /\ Len(session.creators) =
               Cardinality({d[Len(d) - 2] : d \in ModelDirs})
        /\ Len(session.collections) =
               Cardinality({d[Len(d) - 1] : d \in ModelDirs})
        /\ \A d \in ModelDirs : Cardinality(ModelRowsOf(d)) = scans
        /\ \A d \in ModelDirs : \A f \in FilesBeneath(d) :
              Cardinality(FileRowsOf(d, f)) = scans * Cardinality(Twins(d, f))

C2_Witness ==
    /\ RealStore
    /\ pc = "idle"
    /\ scans = 2
    /\ Cardinality(ModelDirs) = 2
    /\ Len(session.models) = 4
    /\ Len(session.creators) = 2
    /\ Len(session.collections) = 1
    /\ Len(session.model_files) = 2 * Cardinality(AllFiles)
    /\ Cardinality(AllFiles) >= 2

(***************************************************************************)
(* C3: the name of every persisted Model row is the directory name with    *)
(* the text from its last separator on removed.                            *)
(***************************************************************************)
C3_ModelNameStripped ==
    RealStore =>
        \A m \in Range(session.models) :
            \E d \in ModelDirs :
                /\ m.path = StoredPath(d)
                /\ HasSeparator(d[Len(d)])
                /\ m.name \o <<Separator>> \o get_infos(d).uuid = d[Len(d)]

(***************************************************************************)
(* C4: for a model directory whose name has a separator, get_infos does    *)
(* not fail; it returns the third-from-last and second-from-last segments  *)
(* as creator and collection, and splits the last segment at its last      *)
(* separator: name, separator and token make up the segment again and the  *)
(* token holds no separator.                                               *)
(***************************************************************************)
C4_GetInfosSplitsAtLastSeparator ==
    (is_dir(fs, model_path) /\ HasSeparator(model_path[Len(model_path)])) =>
        /\ ~infos.raised
        /\ infos.creator = model_path[Len(model_path) - 2]
        /\ infos.collection = model_path[Len(model_path) - 1]
        /\ infos.model_name \o <<Separator>> \o infos.uuid =
               model_path[Len(model_path)]
        /\ ~HasSeparator(infos.uuid)

C4_Witness ==
    /\ pc = "resolve_creator"
    /\ model_path[Len(model_path)] = My_Model_5678
    /\ infos.model_name = <<"M", "y", "-", "M", "o", "d", "e", "l">>
    /\ infos.uuid = <<"5", "6", "7", "8">>
    /\ infos.creator = CreatorB
    /\ infos.collection = CollectionB

(***************************************************************************)
(* C5: when the inner loop takes a directory whose name has no separator,  *)
(* the process ends with ValueError in that very step and the step adds    *)
(* nothing to any table; once the process has ended the tables keep what   *)
(* was committed and never change again.                                   *)
(***************************************************************************)
C5_Step ==
    /\ (/\ pc = "models"
        /\ modelsLeft' # modelsLeft
        /\ is_dir(fs, model_path')
        /\ ~HasSeparator(model_path'[Len(model_path')]))
       => /\ pc' = "aborted"
          /\ error' = Some("ValueError")
          /\ session' = session
    /\ pc = "aborted" => (session' = session /\ pc' = "aborted")

\* C5: a model directory without separator ends the process with
\* ValueError, adding no row then or afterwards
C5_NoSeparatorAbortsScan == [][C5_Step]_vars

C5_Witness ==
    /\ RealStore
    /\ pc = "aborted"
    /\ error = Some("ValueError")
    /\ model_path[Len(model_path)] = NoSep
    /\ Len(session.models) >= 1
    /\ Len(session.model_files) >= 1
    /\ modelsLeft # {}
    /\ \A m \in Range(session.models) : m.path # StoredPath(model_path)

(***************************************************************************)
(* C6: with a real store, when a scan has completed, every Model row has,  *)
(* for every regular file at any depth beneath its directory, exactly one  *)
(* ModelFile row of its own with that file's name, size and digest (files  *)
(* that agree in all three are counted together), and no other ModelFile   *)
(* row: equal digests or equal names in different sub-directories do not   *)
(* merge rows.                                                             *)
(***************************************************************************)
C6_OneRowPerFile ==
    (RealStore /\ pc = "idle" /\ scans >= 1) =>
        /\ \A m \in Range(session.models) : \A d \in ModelDirs :
              m.path = StoredPath(d) =>
                  /\ \A f \in FilesBeneath(d) :
                        Cardinality({i \in DOMAIN session.model_files :
                            /\ session.model_files[i].model_id = m.id
                            /\ session.model_files[i].filename = f[Len(f)]
                            /\ session.model_files[i].size = Len(read_bytes(fs, f))
                            /\ session.model_files[i].digest =
                                   <<"sha512", read_bytes(fs, f)>>})
                        = Cardinality(Twins(d, f))
                  /\ Cardinality({i \in DOMAIN session.model_files :
                         session.model_files[i].model_id = m.id})
                     = Cardinality(FilesBeneath(d))
        /\ \A i \in DOMAIN session.model_files :
              \E m \in Range(session.models) :
                  m.id = session.model_files[i].model_id

C6_Witness ==
    /\ RealStore
    /\ pc = "idle"
    /\ scans = 1
    /\ \E i, j \in DOMAIN session.model_files :
          /\ i # j
          /\ session.model_files[i].filename = session.model_files[j].filename
          /\ session.model_files[i].model_id = session.model_files[j].model_id
          /\ session.model_files[i].digest # session.model_files[j].digest
    /\ \E i, j \in DOMAIN session.model_files :
          /\ i # j
          /\ session.model_files[i].filename # session.model_files[j].filename
          /\ session.model_files[i].model_id = session.model_files[j].model_id
          /\ session.model_files[i].digest = session.model_files[j].digest

(***************************************************************************)
(* C7 as stated: a regular file taken by any of the three loops of         *)
(* insert_folders is passed over; the step neither ends the process nor    *)
(* touches the tables.                                                     *)
(***************************************************************************)
TakesFileAtCreatorLevel ==
    pc = "creators" /\ creatorsLeft' # creatorsLeft /\ is_file(fs, creator_path')

TakesFileAtCollectionLevel ==
    /\ pc = "collections"
    /\ collectionsLeft' # collectionsLeft
    /\ is_file(fs, collection_path')

TakesFileAtModelLevel ==
    pc = "models" /\ modelsLeft' # modelsLeft /\ is_file(fs, model_path')

C7_StrayFileSkippedAtEveryLevel ==
    [][(TakesFileAtCreatorLevel \/ TakesFileAtCollectionLevel
            \/ TakesFileAtModelLevel)
       => (pc' # "aborted" /\ error' = None /\ session' = session)]_vars

(***************************************************************************)
(* C7 amended: a regular file directly under a collection directory is     *)
(* passed over: the step leaves the tables alone and the loop goes on, so  *)
(* a scan that completes has a Model row for every model directory and no  *)
(* Model row for anything else.  A regular file directly under the root    *)
(* or directly under a creator directory ends the process with             *)
(* NotADirectoryError in the step that takes it, adding no row.            *)
(***************************************************************************)
C7_Step ==
    /\ TakesFileAtModelLevel
           => (pc' = "models" /\ error' = None /\ session' = session)
    /\ (TakesFileAtCreatorLevel \/ TakesFileAtCollectionLevel)
           => /\ pc' = "aborted"
              /\ error' = Some("NotADirectoryError")
              /\ session' = session

C7_Rows ==
    RealStore =>
        /\ \A m \in Range(session.models) :
              \E d \in ModelDirs : m.path = StoredPath(d)
        /\ (pc = "idle" /\ scans >= 1) =>
              \A d \in ModelDirs : ModelRowsOf(d) # {}

\* C7 amended: a stray file is passed over at the model level only; at the
\* creator and collection levels it ends the process
C7_StrayFileSkippedAtModelLevelOnly == []C7_Rows /\ [][C7_Step]_vars

C7_Witness ==
    /\ RealStore
    /\ pc = "idle"
    /\ scans >= 1
    /\ File(<<CreatorA, CollectionB, Read_Me>>, Bytes2) \in fs
    /\ Cardinality(ModelDirs) = 2
    /\ Len(session.models) = 2 * scans

(***************************************************************************)
(* C8: in a dry run the tables stay empty, every direct resolver call      *)
(* takes the create branch, and when the process is idle the log holds     *)
(* one Creator add and one Collection add for every direct call of the     *)
(* respective resolver and for every model directory of every completed    *)
(* scan.                                                                   *)
(***************************************************************************)
C8_DryRunNeverFinds ==
    DryRun =>
        /\ session.creators = << >> /\ session.collections = << >>
        /\ session.models = << >> /\ session.model_files = << >>
        /\ session.pending = << >>
        /\ lastCall.fn # "" => (lastCall.created /\ lastCall.row[1].id = None)
        /\ pc = "idle" =>
              /\ Cardinality(LogAdds("models")) = scans * Cardinality(ModelDirs)
              /\ Cardinality(LogAdds("creators")) >= scans * Cardinality(ModelDirs)
              /\ Cardinality(LogAdds("collections")) >= scans * Cardinality(ModelDirs)
              /\ Cardinality(LogAdds("creators")) + Cardinality(LogAdds("collections"))
                     = calls + 2 * scans * Cardinality(ModelDirs)

C8_Witness ==
    /\ DryRun
    /\ pc = "idle"
    /\ scans = 1
    /\ calls = 2
    /\ Cardinality(ModelDirs) = 2
    /\ lastCall.fn = "get_or_create_creator"
    /\ lastCall.created
    /\ Cardinality({i \in LogAdds("creators") :
                       session.log[i].row.name = lastCall.name}) = 3
    /\ Cardinality(LogAdds("collections")) = 2

(***************************************************************************)
(* C9: with a real store, in every state, nothing is staged and            *)
(* uncommitted; every Model row refers to a Creator row and a Collection   *)
(* row named after the creator and collection segments of its directory;   *)
(* every ModelFile row refers to a Model row; and every step that adds a   *)
(* Model or ModelFile row finds the rows it refers to already committed    *)
(* in the state before the step.                                           *)
(***************************************************************************)
C9_State ==
    RealStore =>
        /\ session.pending = << >>
        /\ \A m \in Range(session.models) :
              \E d \in ModelDirs :
                  /\ m.path = StoredPath(d)
                  /\ \E c \in Range(session.creators) :
                        c.id = m.creator_id /\ c.name = d[Len(d) - 2]
                  /\ \E c \in Range(session.collections) :
                        c.id = m.collection_id /\ c.name = d[Len(d) - 1]
        /\ \A f \in Range(session.model_files) :
              \E m \in Range(session.models) : m.id = f.model_id

C9_Step ==
    RealStore =>
        /\ \A i \in DOMAIN session'.models \ DOMAIN session.models :
              /\ session'.models[i].creator_id \in Ids(session.creators)
              /\ session'.models[i].collection_id \in Ids(session.collections)
        /\ \A i \in DOMAIN session'.model_files \ DOMAIN session.model_files :
              session'.model_files[i].model_id \in Ids(session.models)

\* C9: under a real store every row refers to rows committed before it
\* was added
C9_ReferencesCommittedFirst == []C9_State /\ [][C9_Step]_vars

C9_Witness ==
    /\ RealStore
    /\ pc = "files"
    /\ Len(session.models) = 2
    /\ session.models[1].creator_id # session.models[2].creator_id
    /\ Len(session.model_files) >= 2
    /\ session.model_files[Len(session.model_files)].model_id = Some(2)

(***************************************************************************)
(* C10: with a real store, every Collection row has a null parent          *)
(* collection id, no two Collection rows share a name, and any two Model   *)
(* rows whose directories have the same collection segment carry the same  *)
(* collection_id, whatever their creators.                                 *)
(***************************************************************************)
C10_CollectionByNameOnly ==
    RealStore =>
        /\ \A c \in Range(session.collections) : c.collection_id = None
        /\ \A i, j \in DOMAIN session.collections :
              session.collections[i].name = session.collections[j].name => i = j
        /\ \A m1, m2 \in Range(session.models) : \A d1, d2 \in ModelDirs :
              (/\ m1.path = StoredPath(d1)
               /\ m2.path = StoredPath(d2)
               /\ d1[Len(d1) - 1] = d2[Len(d2) - 1])
              => (m1.collection_id = m2.collection_id /\ m1.collection_id # None)

C10_Witness ==
    /\ RealStore
    /\ pc = "idle"
    /\ Len(session.collections) = 1
    /\ session.collections[1].collection_id = None
    /\ \E m1, m2 \in Range(session.models) :
          /\ m1.creator_id # m2.creator_id
          /\ m1.collection_id = m2.collection_id
          /\ m1.collection_id = session.collections[1].id

====
